---- MODULE Spec2Model ----
(***************************************************************************)
(* The CoAP content-negotiation calculator                                 *)
(* (things/calculator/coap/js/coap-content-negotiation-calculator.js) and  *)
(* the test client that encodes its requests (runCalculator and helpers).  *)
(*                                                                         *)
(* Payloads are byte sequences (Seq(0..255)); JSON text is its ASCII       *)
(* bytes.  JS values are records [threw, type, num]: `type` is the result  *)
(* of typeof, `num` the number (or, for a string, its length).  Numbers    *)
(* are integers: fractions and exponents are outside the model.            *)
(***************************************************************************)
EXTENDS Integers, Sequences, FiniteSets, TLC

(***************************************************************************)
(* Bounds of the model.                                                    *)
(***************************************************************************)
\* requests handled in one behaviour
MaxReq == 3
\* responses that become subscriptions in one behaviour
MaxSubs == 1
\* largest reading of the wall clock (milliseconds)
MaxClock == 1
\* largest number of registered representations in the form expansion
MaxReps == 3

(***************************************************************************)
(* Program constants: lines 12, 52-56.                                     *)
(***************************************************************************)
thingName == "coap-calculator-content-negotiation"
JSON == "application/json"
CBOR == "application/cbor"
supportedContentTypes == <<JSON, CBOR>>
\* a header or option the request does not carry (undefined)
undefined == "undefined"

(***************************************************************************)
(* JS values and the two codecs.                                           *)
(***************************************************************************)
Thrown == [threw |-> TRUE, type |-> "undefined", num |-> 0]
Number(n) == [threw |-> FALSE, type |-> "number", num |-> n]
String(len) == [threw |-> FALSE, type |-> "string", num |-> len]
Null == [threw |-> FALSE, type |-> "object", num |-> 0]

IsDigit(c) == c \in 48..57
IsSpace(c) == c \in {9, 10, 13, 32}

RECURSIVE Digits(_)
Digits(n) == IF n < 10 THEN <<48 + n>> ELSE Digits(n \div 10) \o <<48 + (n % 10)>>

RECURSIVE ParseDigits(_)
ParseDigits(s) ==
  IF s = <<>> THEN 0
  ELSE 10 * ParseDigits(SubSeq(s, 1, Len(s) - 1)) + (s[Len(s)] - 48)

RECURSIVE TrimLeft(_)
TrimLeft(s) == IF s # <<>> /\ IsSpace(s[1]) THEN TrimLeft(Tail(s)) ELSE s

RECURSIVE TrimRight(_)
TrimRight(s) ==
  IF s # <<>> /\ IsSpace(s[Len(s)]) THEN TrimRight(SubSeq(s, 1, Len(s) - 1)) ELSE s

\* JSON.stringify of a number
JSONstringify(n) == IF n < 0 THEN <<45>> \o Digits(-n) ELSE Digits(n)

\* JSON.parse of req.payload.toString(): a number, a plain string or null;
\* any other text (the empty text included) throws SyntaxError
JSONparse(text) ==
  LET t == TrimRight(TrimLeft(text))
      d == IF t # <<>> /\ t[1] = 45 THEN Tail(t) ELSE t
  IN  IF t = <<>> THEN Thrown
      ELSE IF t[1] = 34
        THEN IF Len(t) >= 2 /\ t[Len(t)] = 34
                /\ \A i \in 2..(Len(t) - 1) : t[i] \notin {34, 92} /\ t[i] >= 32
             THEN String(Len(t) - 2) ELSE Thrown
      ELSE IF t = <<110, 117, 108, 108>> THEN Null
      ELSE IF d # <<>> /\ (\A i \in 1..Len(d) : IsDigit(d[i])) /\ (Len(d) = 1 \/ d[1] # 48)
        THEN Number(IF t[1] = 45 THEN 0 - ParseDigits(d) ELSE ParseDigits(d))
      ELSE Thrown

\* cbor.encode of an integer (major types 0 and 1)
cborEncode(n) ==
  LET m == IF n < 0 THEN (0 - 1) - n ELSE n
      major == IF n < 0 THEN 32 ELSE 0
  IN  IF m < 24 THEN <<major + m>>
      ELSE IF m < 256 THEN <<major + 24, m>>
      ELSE <<major + 25, m \div 256, m % 256>>

\* cbor.decode (decodeFirstSync): one data item, and nothing after it; too few
\* bytes ("Insufficient data") or bytes left over ("Unexpected data") throw
cborDecode(bytes) ==
  IF bytes = <<>> THEN Thrown
  ELSE LET b == bytes[1]
           info == b % 32
           major == b \div 32
           need == IF major \in {0, 1}
                     THEN (IF info < 24 THEN 1 ELSE IF info = 24 THEN 2 ELSE IF info = 25 THEN 3 ELSE 0)
                   ELSE IF major = 3 /\ info < 24 THEN 1 + info
                   ELSE IF b = 246 THEN 1
                   ELSE 0
           arg == IF info < 24 THEN info
                  ELSE IF info = 24 THEN bytes[2]
                  ELSE 256 * bytes[2] + bytes[3]
       IN  IF need = 0 \/ Len(bytes) # need THEN Thrown
           ELSE IF major = 0 THEN Number(arg)
           ELSE IF major = 1 THEN Number((0 - 1) - arg)
           ELSE IF major = 3 THEN String(info)
           ELSE Null


(***************************************************************************)
(* The state.                                                              *)
(*   result, lastChange   the accumulator (lines 204-205).  lastChange is  *)
(*                        '' or a Date object: [date, obj, t] with obj the *)
(*                        object's identity and t its time value           *)
(*   subs                 the responses that were given a polling timer:   *)
(*                        the closure variables of each (oldResult,        *)
(*                        oldDate, acceptHeaders, changeInterval) and the  *)
(*                        state of the response stream                     *)
(*   nreq                 requests handled so far                          *)
(*   last                 the last event handled and what it put on the    *)
(*                        wire                                             *)
(*   formatIdentifiers, thingDescription, stage                            *)
(*                        the registry, the description and how far its    *)
(*                        form expansion has got (lines 53-192)            *)
(*   ledger, clean        history: the sum of the operands of the accepted *)
(*                        add requests minus that of the accepted subtract *)
(*                        requests; whether every request so far was one   *)
(***************************************************************************)
VARIABLES result, lastChange, subs, nreq, last,
          formatIdentifiers, thingDescription, stage, ledger, clean

vars == <<result, lastChange, subs, nreq, last,
          formatIdentifiers, thingDescription, stage, ledger, clean>>

\* let lastChange = ''
EmptyString == [date |-> FALSE, obj |-> 0, t |-> 0]
\* new Date(): a fresh object holding the clock's reading
NewDate(obj, t) == [date |-> TRUE, obj |-> obj, t |-> t]

\* a !== b on lastChange values: Date objects compare by identity, a Date never
\* equals a string
StrictNotEqual(a, b) == IF a.date /\ b.date THEN a.obj # b.obj ELSE a.date # b.date

\* mutant: every token the request carries passes
includesAnyToken(arr, x) == x # undefined

\* supportedContentTypes.includes(x)
includes(arr, x) == \E i \in 1..Len(arr) : arr[i] = x

\* acceptHeaders.includes('application/json') on a string: with the tokens of
\* the model a substring test is an equality test
strIncludes(str, sub) == str = sub

\* JSON.stringify / cbor.encode of a lastChange value: '' is "" and 0x60, a Date
\* its quoted ISO text and tag 1 with the epoch time
stringifyDate(d) == IF d.date THEN <<34, 84>> \o Digits(d.t) \o <<34>> ELSE <<34, 34>>
cborEncodeDate(d) == IF d.date THEN <<193>> \o cborEncode(d.t) ELSE <<96>>

\* mutant: the value is written as JSON text whatever Accept names
serializeAsJSON(acceptHeaders, n) == JSONstringify(n)

\* lines 254-262, 274-280, 372-378: the value in the representation of Accept
serialize(acceptHeaders, n) ==
  IF strIncludes(acceptHeaders, JSON) THEN JSONstringify(n) ELSE cborEncode(n)

\* lines 298-306, 318-324
serializeDate(acceptHeaders, d) ==
  IF strIncludes(acceptHeaders, JSON) THEN stringifyDate(d) ELSE cborEncodeDate(d)

\* lines 357-362, 386-391: the payload decoded as Content-Format says
decodePayload(reqContentType, payload) ==
  IF strIncludes(reqContentType, JSON) THEN JSONparse(payload) ELSE cborDecode(payload)

(***************************************************************************)
(* One run of the 'request' handler (lines 207-477) is a fold over a       *)
(* context c: the accumulator, the response object (code, Content-Format   *)
(* option, the res.end calls made so far), the timer started, and whether  *)
(* a decoder ran or threw.                                                 *)
(***************************************************************************)
NoSub == [kind |-> "none", acceptHeaders |-> undefined, oldResult |-> 0, oldDate |-> EmptyString]

Context(now) ==
  [result |-> result, lastChange |-> lastChange, now |-> now,
   code |-> 0, cf |-> undefined, ends |-> <<>>, sub |-> NoSub,
   decoded |-> FALSE, threw |-> FALSE]

\* res.code = n / res.statusCode = n
setCode(c, n) == [c EXCEPT !.code = n]
\* res.setOption('Content-Format', v)
setOption(c, v) == [c EXCEPT !.cf = v]
\* res.end(body): one terminal response with the code and options set so far
end(c, body) ==
  [c EXCEPT !.ends = Append(@, [code |-> c.code, cf |-> c.cf, body |-> body, td |-> FALSE])]
\* res.end(JSON.stringify(thingDescription))
endDescription(c) ==
  [c EXCEPT !.ends = Append(@, [code |-> c.code, cf |-> c.cf, body |-> <<>>, td |-> TRUE])]
\* setInterval(...) and res.on('finish', ...) (lines 246-268, 291-312, 437-460)
observe(c, kind, acceptHeaders) ==
  [c EXCEPT !.sub = [kind |-> kind, acceptHeaders |-> acceptHeaders,
                     oldResult |-> c.result, oldDate |-> c.lastChange]]

\* mutant: the description is served whatever the method
rootValidationAnyMethod(rq, c) ==
  IF rq.root # thingName THEN end(setCode(c, 404), <<>>)
  ELSE IF rq.seg2 = "" THEN endDescription(c)
  ELSE c

\* lines 217-230
rootValidation(rq, c) ==
  IF rq.root # thingName THEN end(setCode(c, 404), <<>>)
  ELSE IF rq.seg2 = ""
    THEN IF rq.method = "GET" THEN endDescription(c) ELSE end(setCode(c, 405), <<>>)
  ELSE c

\* lines 232-343
propertiesBranch(rq, c) ==
  IF rq.seg2 # "properties" THEN c
  ELSE IF rq.method # "GET" THEN end(setCode(c, 405), <<>>)
  ELSE IF ~includes(supportedContentTypes, rq.Accept) THEN end(setCode(c, 406), <<>>)
  ELSE LET c1 == setOption(c, rq.Accept)
       IN  IF rq.seg3 = "result"
             THEN IF rq.Observe = "0" THEN observe(c1, "result", rq.Accept)
                  ELSE end(c1, serialize(rq.Accept, c1.result))
           ELSE IF rq.seg3 = "lastChange"
             THEN IF rq.Observe = "0" THEN observe(c1, "lastChange", rq.Accept)
                  ELSE end(c1, serializeDate(rq.Accept, c1.lastChange))
           ELSE end(setCode(c1, 404), <<>>)

\* mutant: the mutation leaves lastChange as it was
mutateKeepsTimestamp(rq, c, sign) ==
  LET number == decodePayload(rq.ContentFormat, rq.payload)
      c1 == [c EXCEPT !.decoded = TRUE]
  IN  IF number.threw THEN [c1 EXCEPT !.threw = TRUE]
      ELSE IF number.type # "number" \/ number.num = 0 THEN end(setCode(c1, 400), <<>>)
      ELSE LET c2 == [c1 EXCEPT !.result = c.result + sign * number.num]
           IN  end(c2, serialize(rq.Accept, c2.result))

\* mutant: subtract adds
mutateAlwaysAdds(rq, c, sign) ==
  LET number == decodePayload(rq.ContentFormat, rq.payload)
      c1 == [c EXCEPT !.decoded = TRUE]
  IN  IF number.threw THEN [c1 EXCEPT !.threw = TRUE]
      ELSE IF number.type # "number" \/ number.num = 0 THEN end(setCode(c1, 400), <<>>)
      ELSE LET c2 == [c1 EXCEPT !.result = c.result + number.num,
                                !.lastChange = NewDate(nreq + 1, c.now)]
           IN  end(c2, serialize(rq.Accept, c2.result))

\* lines 364-379 (sign = 1) and 393-408 (sign = -1)
mutate(rq, c, sign) ==
  LET number == decodePayload(rq.ContentFormat, rq.payload)
      c1 == [c EXCEPT !.decoded = TRUE]
  IN  IF number.threw THEN [c1 EXCEPT !.threw = TRUE]
      ELSE IF number.type # "number" \/ number.num = 0 THEN end(setCode(c1, 400), <<>>)
      ELSE LET c2 == [c1 EXCEPT !.result = c.result + sign * number.num,
                                !.lastChange = NewDate(nreq + 1, c.now)]
           IN  end(c2, serialize(rq.Accept, c2.result))

\* mutant: Accept is tested before Content-Format
actionsBranchAcceptFirst(rq, c) ==
  IF rq.seg2 # "actions" THEN c
  ELSE IF rq.method # "POST" THEN end(setCode(c, 405), <<>>)
  ELSE IF ~includes(supportedContentTypes, rq.Accept) THEN end(setCode(c, 406), <<>>)
  ELSE IF ~includes(supportedContentTypes, rq.ContentFormat) THEN end(setCode(c, 415), <<>>)
  ELSE LET c1 == setOption(c, rq.Accept)
       IN  IF rq.seg3 = "add" THEN mutate(rq, c1, 1)
           ELSE IF rq.seg3 = "subtract" THEN mutate(rq, c1, 0 - 1)
           ELSE end(setCode(c1, 404), <<>>)

\* lines 345-429
actionsBranch(rq, c) ==
  IF rq.seg2 # "actions" THEN c
  ELSE IF rq.method # "POST" THEN end(setCode(c, 405), <<>>)
  ELSE IF ~includes(supportedContentTypes, rq.ContentFormat) THEN end(setCode(c, 415), <<>>)
  ELSE IF ~includes(supportedContentTypes, rq.Accept) THEN end(setCode(c, 406), <<>>)
  ELSE LET c1 == setOption(c, rq.Accept)
       IN  IF rq.seg3 = "add" THEN mutate(rq, c1, 1)
           ELSE IF rq.seg3 = "subtract" THEN mutate(rq, c1, 0 - 1)
           ELSE end(setCode(c1, 404), <<>>)

\* mutant: the Observe option is not looked at
eventsBranchNoObserveTest(rq, c) ==
  IF ~(rq.seg2 = "events" /\ rq.method = "GET") THEN c
  ELSE IF rq.seg3 # "update" THEN end(setCode(c, 404), <<>>)
  ELSE IF ~includes(supportedContentTypes, rq.Accept) THEN end(setCode(c, 406), <<>>)
  ELSE observe(c, "update", rq.Accept)

\* lines 431-476
eventsBranch(rq, c) ==
  IF ~(rq.seg2 = "events" /\ rq.method = "GET") THEN c
  ELSE IF rq.seg3 # "update" THEN end(setCode(c, 404), <<>>)
  ELSE IF rq.Observe # "0" THEN end(setCode(c, 402), <<>>)
  ELSE IF ~includes(supportedContentTypes, rq.Accept) THEN end(setCode(c, 406), <<>>)
  ELSE observe(c, "update", rq.Accept)

\* lines 207-477: the four statements run one after the other; an exception
\* thrown by a decoder leaves the handler
handler(rq, now) ==
  LET c1 == rootValidation(rq, Context(now))
      c2 == propertiesBranch(rq, c1)
      c3 == actionsBranch(rq, c2)
  IN  IF c3.threw THEN c3 ELSE eventsBranch(rq, c3)


(***************************************************************************)
(* The form expansion (lines 52-192).  A form is a record of the fields of *)
(* defaultForm; 'response' is flattened into respContentType and           *)
(* respContentFormat, and an op array is named by its first element.       *)
(* formatIdentifiers is the sequence of the object's entries in insertion  *)
(* order, the order `for ... in` visits them in.                           *)
(***************************************************************************)
\* lines 53-56
sourceFormatIdentifiers == <<[id |-> JSON, code |-> 50], [id |-> CBOR, code |-> 60]>>

\* lines 58-69
defaultForm ==
  [href |-> "", contentType |-> JSON, contentFormat |-> 50, op |-> "", method |-> "",
   accept |-> 50, respContentType |-> JSON, respContentFormat |-> 50, subprotocol |-> ""]

\* the affordances of the thing model, in the order of the three loops
affordances ==
  <<[kind |-> "properties", key |-> "result"], [kind |-> "properties", key |-> "lastChange"],
    [kind |-> "actions", key |-> "add"], [kind |-> "actions", key |-> "subtract"],
    [kind |-> "events", key |-> "update"]>>

\* mutant: the clone keeps the response fields of the form it is cloned from
withFormatKeepsResponse(form, entry) ==
  [form EXCEPT !.contentType = entry.id, !.contentFormat = entry.code, !.accept = entry.code]

\* lines 92-97, 130-135, 183-188: a clone with every format field set to one entry
withFormat(form, entry) ==
  [form EXCEPT !.contentType = entry.id, !.contentFormat = entry.code, !.accept = entry.code,
               !.respContentType = entry.id, !.respContentFormat = entry.code]

\* mutant: the clone names the new response representation and keeps the old codes
withAcceptKeepsCodes(form, entry) == [form EXCEPT !.respContentType = entry.id]

\* mutant: the clone keeps the response content type of the form it is cloned from
withAcceptKeepsResponse(form, entry) ==
  [form EXCEPT !.accept = entry.code, !.respContentFormat = entry.code]

\* lines 144-147, 154-157: a clone with the accept and response fields set to one entry
withAccept(form, entry) ==
  [form EXCEPT !.accept = entry.code, !.respContentType = entry.id,
               !.respContentFormat = entry.code]

\* lines 81-83, 100-102
asObserve(form) == [form EXCEPT !.op = "observeproperty", !.subprotocol = "cov:observe"]

\* lines 90-105, from the i-th entry on
RECURSIVE propertyLoop(_, _, _, _)
propertyLoop(forms, originalForm, F, i) ==
  IF i > Len(F) THEN forms
  ELSE IF originalForm.contentType # F[i].id
    THEN LET newFormRead == withFormat(originalForm, F[i])
         IN  propertyLoop(forms \o <<newFormRead, asObserve(newFormRead)>>, originalForm, F, i + 1)
  ELSE propertyLoop(forms, originalForm, F, i + 1)

\* lines 74-105
propertyForms(key, F) ==
  LET newFormRead == [defaultForm EXCEPT !.href = "properties/" \o key, !.method = "GET",
                                         !.op = "readproperty"]
  IN  propertyLoop(<<newFormRead, asObserve(newFormRead)>>, newFormRead, F, 1)

\* mutant: the loop clones the form for its own cov:accept too
RECURSIVE acceptLoopNoTest(_, _, _, _)
acceptLoopNoTest(forms, form, F, j) ==
  IF j > Len(F) THEN forms
  ELSE acceptLoopNoTest(Append(forms, [form EXCEPT !.accept = F[j].code,
                                                   !.respContentType = F[j].id,
                                                   !.respContentFormat = F[j].code]),
                        form, F, j + 1)

\* lines 142-150 and 152-160: one clone of `form` for every entry whose code is
\* not the form's cov:accept
RECURSIVE acceptLoop(_, _, _, _)
acceptLoop(forms, form, F, j) ==
  IF j > Len(F) THEN forms
  ELSE IF form.accept # F[j].code
    THEN acceptLoop(Append(forms, withAccept(form, F[j])), form, F, j + 1)
  ELSE acceptLoop(forms, form, F, j + 1)

\* mutant: the loop clones the original form for its own representation too
RECURSIVE actionLoopNoTest(_, _, _, _)
actionLoopNoTest(forms, originalForm, F, i) ==
  IF i > Len(F) THEN forms
  ELSE LET newForm == withFormat(originalForm, F[i])
       IN  actionLoopNoTest(acceptLoop(Append(forms, newForm), newForm, F, 1), originalForm, F, i + 1)

\* lines 122-162, from the i-th entry on
RECURSIVE actionLoop(_, _, _, _)
actionLoop(forms, originalForm, F, i) ==
  IF i > Len(F) THEN forms
  ELSE IF originalForm.contentType # F[i].id
    THEN LET newForm == withFormat(originalForm, F[i])
         IN  actionLoop(acceptLoop(Append(forms, newForm), newForm, F, 1), originalForm, F, i + 1)
  ELSE actionLoop(acceptLoop(forms, originalForm, F, 1), originalForm, F, i + 1)

\* lines 111-162
actionForms(key, F) ==
  LET newForm == [defaultForm EXCEPT !.href = "actions/" \o key, !.method = "POST",
                                     !.op = "invokeaction"]
  IN  actionLoop(<<newForm>>, newForm, F, 1)

\* lines 181-191, from the i-th entry on
RECURSIVE eventLoop(_, _, _, _)
eventLoop(forms, originalForm, F, i) ==
  IF i > Len(F) THEN forms
  ELSE IF originalForm.contentType # F[i].id
    THEN eventLoop(Append(forms, withFormat(originalForm, F[i])), originalForm, F, i + 1)
  ELSE eventLoop(forms, originalForm, F, i + 1)

\* lines 169-191
eventForms(key, F) ==
  LET newForm == [defaultForm EXCEPT !.href = "events/" \o key, !.method = "GET",
                                     !.op = "subscribeevent", !.subprotocol = "cov:observe"]
  IN  eventLoop(<<newForm>>, newForm, F, 1)

\* the forms one pass of the loop of its kind gives an affordance
formsOf(a, F) ==
  IF a.kind = "properties" THEN propertyForms(a.key, F)
  ELSE IF a.kind = "actions" THEN actionForms(a.key, F)
  ELSE eventForms(a.key, F)

Keys == {affordances[i].key : i \in 1..Len(affordances)}

\* the thing model before line 72: no affordance has forms yet
thingModel == [k \in Keys |-> <<>>]

\* lines 72-192 run to the end
expanded(F) == [k \in Keys |-> formsOf(CHOOSE a \in {affordances[i] : i \in 1..Len(affordances)} : a.key = k, F)]

Serving == Len(affordances) + 1


(***************************************************************************)
(* The test client (content-negotiation client, addNumber/subtractNumber   *)
(* and the response handling of every helper).                             *)
(***************************************************************************)
\* addNumber lines 218-229: the operand in the representation named
clientEncode(contentType, number) ==
  IF contentType = JSON THEN JSONstringify(number) ELSE cborEncode(number)

\* lines 248-261: the response body read as its content type says
clientDecode(contentType, body) ==
  IF strIncludes(contentType, JSON) THEN JSONparse(body)
  ELSE IF strIncludes(contentType, CBOR) THEN cborDecode(body)
  ELSE Thrown

\* getLatestChange lines 159-170: a lastChange body read as its content type
\* says, as [ok, date, t]: the empty string, or a date and its time value
clientDecodeDate(contentType, body) ==
  LET none == [ok |-> FALSE, date |-> FALSE, t |-> 0]
      n == Len(body)
  IN  IF strIncludes(contentType, JSON)
        THEN IF body = <<34, 34>> THEN [ok |-> TRUE, date |-> FALSE, t |-> 0]
             ELSE IF n >= 4 /\ body[1] = 34 /\ body[2] = 84 /\ body[n] = 34
                     /\ \A i \in 3..(n - 1) : IsDigit(body[i])
               THEN [ok |-> TRUE, date |-> TRUE, t |-> ParseDigits(SubSeq(body, 3, n - 1))]
             ELSE none
      ELSE IF strIncludes(contentType, CBOR)
        THEN IF body = <<96>> THEN [ok |-> TRUE, date |-> FALSE, t |-> 0]
             ELSE IF n >= 2 /\ body[1] = 193 /\ cborDecode(Tail(body)).type = "number"
                     /\ ~cborDecode(Tail(body)).threw
               THEN [ok |-> TRUE, date |-> TRUE, t |-> cborDecode(Tail(body)).num]
             ELSE none
      ELSE none

(***************************************************************************)
(* The requests of the model.  A GET carries no body and no Content-Format *)
(* a POST to an action carries every combination of tokens and payload.    *)
(***************************************************************************)
Operands == {0, 5, 10}
Tokens == {JSON, CBOR, "text/plain", undefined}
Payloads ==
  {clientEncode(ct, n) : ct \in {JSON, CBOR}, n \in Operands}
    \cup {<<>>, <<34, 97, 34>>, <<97, 97>>}

Request(root, seg2, seg3, method, accept, contentFormat, obs, payload) ==
  [root |-> root, seg2 |-> seg2, seg3 |-> seg3, method |-> method, Accept |-> accept,
   ContentFormat |-> contentFormat, Observe |-> obs, payload |-> payload]

Roots == {thingName, "other-thing"}
Registered == {JSON, CBOR}
Paths ==
  {<<"properties", "result">>, <<"properties", "lastChange">>, <<"properties", "unknown">>,
   <<"events", "update">>, <<"events", "unknown">>}

\* GETs and POSTs to the properties and the event of the thing, with and
\* without Observe, and GETs to the same paths of another thing
ReadRequests ==
  {Request(thingName, p[1], p[2], m, a, undefined, o, <<>>) :
     p \in Paths, m \in {"GET", "POST"}, a \in Tokens, o \in {"0", undefined}}
  \cup
  {Request("other-thing", p[1], p[2], "GET", a, undefined, o, <<>>) :
     p \in {<<"properties", "result">>, <<"events", "update">>},
     a \in {JSON, "text/plain"}, o \in {"0", undefined}}

\* POSTs to the actions of the thing: registered tokens with every payload,
\* every other pair of tokens with an operand and with no payload; POSTs to
\* the actions of another thing; GETs
ActionRequests ==
  {Request(thingName, "actions", s3, "POST", a, cf, undefined, pl) :
     s3 \in {"add", "subtract", "unknown"}, a \in Registered, cf \in Registered, pl \in Payloads}
  \cup
  {Request(thingName, "actions", s3, "POST", t[1], t[2], undefined, pl) :
     s3 \in {"add", "subtract", "unknown"},
     t \in (Tokens \X Tokens) \ (Registered \X Registered),
     pl \in {clientEncode(JSON, 10), <<>>}}
  \cup
  {Request("other-thing", "actions", s3, "POST", a, cf, undefined, pl) :
     s3 \in {"add", "subtract"}, a \in {JSON, "text/plain"}, cf \in {JSON, "text/plain"},
     pl \in {clientEncode(JSON, 10), <<>>}}
  \cup
  {Request(thingName, "actions", s3, "GET", JSON, undefined, undefined, <<>>) :
     s3 \in {"add", "subtract", "unknown"}}

\* requests to the thing itself and to a sub-path that is none of the three
RootRequests ==
  {Request(root, s2, "", m, JSON, undefined, undefined, <<>>) :
     root \in Roots, s2 \in {"", "unknown"}, m \in {"GET", "POST"}}

Requests == ReadRequests \cup ActionRequests \cup RootRequests

NoRequest == Request("", "", "", "", undefined, undefined, undefined, <<>>)
NoResponse == [ends |-> <<>>, decoded |-> FALSE, threw |-> FALSE, observing |-> FALSE]

Event(type, rq, rs, sub, wrote, body) ==
  [type |-> type, req |-> rq, res |-> rs, sub |-> sub, wrote |-> wrote, body |-> body]

(***************************************************************************)
(* Init: the server listening (line 479), the description expanded with    *)
(* the registry of the source.                                             *)
(***************************************************************************)
Init ==
  /\ result = 0
  /\ lastChange = EmptyString
  /\ subs = <<>>
  /\ nreq = 0
  /\ last = Event("listen", NoRequest, NoResponse, 0, FALSE, <<>>)
  /\ formatIdentifiers = sourceFormatIdentifiers
  /\ thingDescription = expanded(sourceFormatIdentifiers)
  /\ stage = Serving
  /\ ledger = 0
  /\ clean = TRUE

\* a response whose end() was called emits 'finish' before the event loop runs
\* any other callback
NoPendingFinish == \A s \in 1..Len(subs) : subs[s].chan # "ended"

\* the clock never runs backwards: new Date() reads no less than the last reading
Clock == (IF lastChange.date THEN lastChange.t ELSE 0)..MaxClock

\* the request was answered once, with success, or became a subscription
accepted(c) ==
  /\ ~c.threw
  /\ \/ Len(c.ends) = 1 /\ c.ends[1].code = 0 /\ c.sub.kind = "none"
     \/ c.ends = <<>> /\ c.sub.kind # "none"

\* the operand the client put in the payload
operandOf(rq) ==
  IF \E n \in -32..32 : clientEncode(rq.ContentFormat, n) = rq.payload
    THEN CHOOSE n \in -32..32 : clientEncode(rq.ContentFormat, n) = rq.payload
    ELSE 0

\* what an accepted request adds to the ledger
ledgerEntry(rq) ==
  IF rq.seg2 = "actions" /\ rq.seg3 = "add" THEN operandOf(rq)
  ELSE IF rq.seg2 = "actions" /\ rq.seg3 = "subtract" THEN 0 - operandOf(rq)
  ELSE 0

\* server.on('request', ...) lines 207-477, for one request; at most cap
\* responses become subscriptions
Handle(rq, now, cap) ==
  LET c == handler(rq, now)
  IN  /\ c.sub.kind # "none" => Len(subs) < cap
      /\ nreq' = nreq + 1
      /\ result' = c.result
      /\ lastChange' = c.lastChange
      /\ subs' = IF c.sub.kind = "none" THEN subs
                 ELSE Append(subs, [kind |-> c.sub.kind, acceptHeaders |-> c.sub.acceptHeaders,
                                    oldResult |-> c.sub.oldResult, oldDate |-> c.sub.oldDate,
                                    changeInterval |-> TRUE, cf |-> c.cf,
                                    chan |-> IF c.ends # <<>> THEN "ended" ELSE "open"])
      /\ last' = Event("request", rq,
                       [ends |-> c.ends, decoded |-> c.decoded, threw |-> c.threw,
                        observing |-> c.sub.kind # "none"], 0, FALSE, <<>>)
      /\ clean' = (clean /\ accepted(c))
      /\ ledger' = IF clean' THEN ledger + ledgerEntry(rq) ELSE 0
      /\ UNCHANGED <<formatIdentifiers, thingDescription, stage>>

HandleRequest(rq, now) == Handle(rq, now, MaxSubs)

OnRequest ==
  /\ stage = Serving
  /\ nreq < MaxReq
  /\ NoPendingFinish
  /\ last.type # "request"
  /\ \E rq \in Requests, now \in Clock : HandleRequest(rq, now)

\* line 477: the handler returns, req and res go out of scope
Return ==
  /\ last.type = "request"
  /\ last' = Event("idle", NoRequest, NoResponse, 0, FALSE, <<>>)
  /\ UNCHANGED <<result, lastChange, subs, nreq, formatIdentifiers, thingDescription, stage,
                 ledger, clean>>

\* the value a subscription watches, and what the callback does when it differs
\* from the value kept (lines 251-263, 295-307, 443-455)
changed(sub) ==
  IF sub.kind = "lastChange" THEN StrictNotEqual(sub.oldDate, lastChange)
  ELSE sub.oldResult # result

\* mutant: the callback writes JSON text whatever the subscription asked for
notificationAsJSON(sub) ==
  IF sub.kind = "lastChange" THEN stringifyDate(lastChange) ELSE JSONstringify(result)

\* mutant: the callback writes the value it kept
notificationOfBaseline(sub) ==
  IF sub.kind = "lastChange" THEN serializeDate(sub.acceptHeaders, sub.oldDate)
  ELSE serialize(sub.acceptHeaders, sub.oldResult)

notification(sub) ==
  IF sub.kind = "lastChange" THEN serializeDate(sub.acceptHeaders, lastChange)
  ELSE serialize(sub.acceptHeaders, result)

\* mutant: the baseline is one variable shared by all the callbacks
TickSharedBaseline(s) ==
  /\ stage = Serving
  /\ last.type # "request"
  /\ NoPendingFinish
  /\ subs[s].changeInterval
  /\ subs' = [u \in DOMAIN subs |->
                IF changed(subs[s])
                  THEN [subs[u] EXCEPT !.oldResult = result, !.oldDate = lastChange]
                  ELSE subs[u]]
  /\ last' = Event("tick", NoRequest, NoResponse, s, changed(subs[s]),
                   IF changed(subs[s]) THEN notification(subs[s]) ELSE <<>>)
  /\ UNCHANGED <<result, lastChange, nreq, formatIdentifiers, thingDescription, stage,
                 ledger, clean>>

\* the setInterval callback of subscription s (lines 249-264, 293-308, 439-456)
Tick(s) ==
  /\ stage = Serving
  /\ last.type # "request"
  /\ NoPendingFinish
  /\ subs[s].changeInterval
  /\ subs' = [subs EXCEPT ![s].cf = IF subs[s].kind = "update" THEN subs[s].acceptHeaders ELSE @,
                          ![s].oldResult = IF subs[s].kind # "lastChange" /\ changed(subs[s])
                                             THEN result ELSE @,
                          ![s].oldDate = IF subs[s].kind = "lastChange" /\ changed(subs[s])
                                           THEN lastChange ELSE @]
  /\ last' = Event("tick", NoRequest, NoResponse, s, changed(subs[s]),
                   IF changed(subs[s]) THEN notification(subs[s]) ELSE <<>>)
  /\ UNCHANGED <<result, lastChange, nreq, formatIdentifiers, thingDescription, stage,
                 ledger, clean>>

\* the peer resets the observation or the server ends the response: the
\* stream of subscription s is ended
Close(s) ==
  /\ stage = Serving
  /\ last.type # "request"
  /\ NoPendingFinish
  /\ subs[s].chan = "open"
  /\ subs' = [subs EXCEPT ![s].chan = "ended"]
  /\ last' = Event("close", NoRequest, NoResponse, s, FALSE, <<>>)
  /\ UNCHANGED <<result, lastChange, nreq, formatIdentifiers, thingDescription, stage,
                 ledger, clean>>

\* mutant: no listener cancels the timer
clearIntervalForgotten(sub) == [sub EXCEPT !.chan = "finished"]

\* res.on('finish', () => clearInterval(changeInterval)) (lines 266-268,
\* 310-312, 458-460)
clearInterval(sub) == [sub EXCEPT !.changeInterval = FALSE, !.chan = "finished"]

Finish(s) ==
  /\ stage = Serving
  /\ subs[s].chan = "ended"
  /\ subs' = [subs EXCEPT ![s] = clearInterval(subs[s])]
  /\ last' = Event("finish", NoRequest, NoResponse, s, FALSE, <<>>)
  /\ UNCHANGED <<result, lastChange, nreq, formatIdentifiers, thingDescription, stage,
                 ledger, clean>>

OnTick == \E s \in 1..Len(subs) : Tick(s)
OnClose == \E s \in 1..Len(subs) : Close(s)
OnFinish == \E s \in 1..Len(subs) : Finish(s)

Next == OnRequest \/ Return \/ OnTick \/ OnClose \/ OnFinish

Spec == Init /\ [][Next]_vars


(***************************************************************************)
(* The server with several subscriptions at a time: the requests are the   *)
(* subscriptions to the two properties and the event, the accepted         *)
(* mutations and a read; the timers that stay armed keep firing.           *)
(***************************************************************************)
\* subscriptions alive in one behaviour
MaxWatchers == 2
\* requests handled in one behaviour
MaxWatchReq == 4

WatchRequests ==
  {Request(thingName, p[1], p[2], "GET", a, undefined, "0", <<>>) :
     p \in {<<"properties", "result">>, <<"properties", "lastChange">>, <<"events", "update">>},
     a \in Registered}
  \cup
  {Request(thingName, "actions", s3, "POST", JSON, cf, undefined, clientEncode(cf, 5)) :
     s3 \in {"add", "subtract"}, cf \in Registered}
  \cup
  {Request(thingName, "properties", "result", "GET", JSON, undefined, undefined, <<>>)}

OnWatch ==
  /\ stage = Serving
  /\ nreq < MaxWatchReq
  /\ NoPendingFinish
  /\ last.type # "request"
  /\ \E rq \in WatchRequests, now \in Clock : Handle(rq, now, MaxWatchers)

WatchNext == OnWatch \/ Return \/ OnTick \/ OnClose \/ OnFinish

WatchSpec ==
  /\ Init
  /\ [][WatchNext]_vars
  /\ WF_vars(Return)
  /\ WF_vars(OnFinish)
  /\ \A s \in 1..MaxWatchers : WF_vars(s \in DOMAIN subs /\ Tick(s))

(***************************************************************************)
(* The form expansion as it runs at startup (lines 72-192), one affordance *)
(* a step, for every registry of at most MaxReps representations that      *)
(* holds the representation of defaultForm.                                *)
(***************************************************************************)
KnownFormats ==
  {[id |-> JSON, code |-> 50], [id |-> CBOR, code |-> 60],
   [id |-> "application/xml", code |-> 41], [id |-> "text/plain", code |-> 0]}

Registries ==
  {F \in UNION {[1..n -> KnownFormats] : n \in 1..MaxReps} :
     /\ \A i, j \in DOMAIN F : i # j => F[i] # F[j]
     /\ \E i \in DOMAIN F : F[i].id = defaultForm.contentType}

FormInit ==
  /\ result = 0
  /\ lastChange = EmptyString
  /\ subs = <<>>
  /\ nreq = 0
  /\ last = Event("startup", NoRequest, NoResponse, 0, FALSE, <<>>)
  /\ formatIdentifiers \in Registries
  /\ thingDescription = thingModel
  /\ stage = 1
  /\ ledger = 0
  /\ clean = TRUE

\* one pass of the loop of the given kind
AddForms(kind) ==
  /\ stage <= Len(affordances)
  /\ affordances[stage].kind = kind
  /\ thingDescription' = [thingDescription EXCEPT
                            ![affordances[stage].key] = formsOf(affordances[stage], formatIdentifiers)]
  /\ stage' = stage + 1
  /\ UNCHANGED <<result, lastChange, subs, nreq, last, formatIdentifiers, ledger, clean>>

\* lines 72-106
AddPropertyForms == AddForms("properties")
\* lines 109-163
AddActionForms == AddForms("actions")
\* lines 167-192
AddEventForms == AddForms("events")

FormNext == AddPropertyForms \/ AddActionForms \/ AddEventForms

FormSpec == FormInit /\ [][FormNext]_vars


(***************************************************************************)
(* Claims about the form expansion (under FormSpec).                       *)
(***************************************************************************)
\* lines 41-42: RESULT_OBSERVABLE and LAST_CHANGE_OBSERVABLE are true; the
\* event carries no observable flag
observable(a) == a.kind = "properties" /\ a.key \in {"result", "lastChange"}

\* the affordances whose loop pass is over
Expanded == {affordances[i] : i \in 1..(stage - 1)}

Ids == {formatIdentifiers[i].id : i \in DOMAIN formatIdentifiers}

FormCount(a, n) ==
  IF a.kind = "actions" THEN n + (n - 1) * n
  ELSE IF observable(a) THEN 2 * n
  ELSE n

\* C8: every affordance whose forms were generated has 2 x |representations|
\* forms if it is an observable property, |representations| forms if it is a
\* property or event that is not, and |representations| +
\* (|representations| - 1) x |representations| forms if it is an action,
\* for every registry.
C8_FormCounts ==
  \A a \in Expanded :
    Len(thingDescription[a.key]) = FormCount(a, Len(formatIdentifiers))

\* C8 witness: the expansion is over for a registry of three representations,
\* so an action has nine forms, a property six and the event three.
C8_Witness ==
  /\ stage = Serving
  /\ Len(formatIdentifiers) = 3
  /\ Len(thingDescription["add"]) = 9
  /\ Len(thingDescription["result"]) = 6
  /\ Len(thingDescription["update"]) = 3

\* the forms of an affordance whose request representation is q and whose
\* response representation is r
FormsWith(key, q, r) ==
  {i \in DOMAIN thingDescription[key] :
     /\ thingDescription[key][i].contentType = q
     /\ thingDescription[key][i].respContentType = r}

\* C9: the (request, response) representation pairs of the forms of every
\* action are exactly the cross product of the registered representations,
\* every pair in exactly one form.
C9_ActionPairsAreCrossProduct ==
  \A a \in Expanded :
    a.kind = "actions" =>
      /\ \A q \in Ids, r \in Ids : Cardinality(FormsWith(a.key, q, r)) = 1
      /\ \A i \in DOMAIN thingDescription[a.key] :
           /\ thingDescription[a.key][i].contentType \in Ids
           /\ thingDescription[a.key][i].respContentType \in Ids

\* C9 witness: with JSON, CBOR and a third representation registered, add has
\* one form taking CBOR and answering JSON, and one base form.
C9_Witness ==
  /\ stage = Serving
  /\ Len(formatIdentifiers) = 3
  /\ CBOR \in Ids
  /\ Cardinality(FormsWith("add", CBOR, JSON)) = 1
  /\ Cardinality(FormsWith("add", JSON, JSON)) = 1


(***************************************************************************)
(* Claims about the dispatcher and the subscriptions (under Spec, and      *)
(* under FairSpec where a timer that stays armed keeps firing).            *)
(***************************************************************************)
\* setInterval fires its callback again and again while the timer exists; a
\* handler that was entered returns; an ended stream emits 'finish'
FairSpec ==
  /\ Spec
  /\ WF_vars(Return)
  /\ WF_vars(OnFinish)
  /\ \A s \in 1..MaxSubs : WF_vars(s \in DOMAIN subs /\ Tick(s))

\* the step handles a request: last' holds it and the response
RequestStep == last'.type = "request"
\* the step is the timer callback of subscription s
TickStep(s) == last'.type = "tick" /\ last'.sub = s

\* the response the requester gets: the first res.end of the handler
Answered(rs, code) == rs.ends # <<>> /\ rs.ends[1].code = code
\* every res.end of the handler carried an error code
Rejected(rs) == rs.ends # <<>> /\ \A i \in DOMAIN rs.ends : rs.ends[i].code >= 400

Declared(seg2) ==
  IF seg2 = "properties" THEN {"result", "lastChange"}
  ELSE IF seg2 = "actions" THEN {"add", "subtract"}
  ELSE IF seg2 = "events" THEN {"update"}
  ELSE {}

IsMutationRequest(rq) == rq.seg2 = "actions" /\ rq.seg3 \in {"add", "subtract"}

\* C1: a request whose root segment is not the thing name is answered NotFound,
\* leaves result and lastChange as they were and starts no subscription timer.
C1_StrayRequestTouchesNothing ==
  [][(RequestStep /\ last'.req.root # thingName) =>
       /\ Answered(last'.res, 404)
       /\ result' = result
       /\ lastChange' = lastChange
       /\ ~last'.res.observing]_vars

\* C2: an add or subtract request whose Content-Format or Accept token is not
\* registered is rejected with no decoder run and with result and lastChange
\* as they were, whatever its payload.
C2_UnregisteredTokenRejectedBeforeDecode ==
  [][(/\ RequestStep
      /\ IsMutationRequest(last'.req)
      /\ (last'.req.ContentFormat \notin Registered \/ last'.req.Accept \notin Registered)) =>
       /\ Rejected(last'.res)
       /\ ~last'.res.decoded
       /\ ~last'.res.threw
       /\ result' = result
       /\ lastChange' = lastChange]_vars

\* C2 witness: after an accepted add, an add of a well-formed operand with a
\* registered Content-Format and an unregistered Accept was answered 406 and
\* the accumulator still holds the first sum.
C2_Witness ==
  /\ last.type = "request"
  /\ last.req.root = thingName
  /\ last.req.seg3 = "add"
  /\ last.req.method = "POST"
  /\ last.req.ContentFormat = JSON
  /\ last.req.Accept = "text/plain"
  /\ last.req.payload = clientEncode(JSON, 10)
  /\ Answered(last.res, 406)
  /\ result = 5
  /\ lastChange.date

\* the request was answered once, with success, by an action
AcceptedMutation(rq, rs) ==
  /\ IsMutationRequest(rq)
  /\ Len(rs.ends) = 1
  /\ rs.ends[1].code = 0
  /\ ~rs.threw

\* C3: while every request handled was accepted, result is the sum of the
\* operands added minus the sum of the operands subtracted, and the response
\* to each accepted add or subtract, read in the representation asked for,
\* is the value of result right after it.
C3_ResultIsLedger ==
  [][RequestStep =>
       /\ clean' => result' = ledger'
       /\ AcceptedMutation(last'.req, last'.res) =>
            /\ last'.res.ends[1].cf = last'.req.Accept
            /\ clientDecode(last'.req.Accept, last'.res.ends[1].body) = Number(result')]_vars

\* C3 witness: add(10) sent as JSON then subtract(5) sent as CBOR and answered
\* in JSON: result is 5 and the answer is the text 5.
C3_Witness ==
  /\ clean
  /\ nreq = 2
  /\ last.type = "request"
  /\ last.req.seg3 = "subtract"
  /\ last.req.ContentFormat = CBOR
  /\ last.req.payload = clientEncode(CBOR, 5)
  /\ last.req.Accept = JSON
  /\ last.res.ends = <<[code |-> 0, cf |-> JSON, body |-> <<53>>, td |-> FALSE]>>
  /\ result = 5
  /\ ledger = 5

\* the operand is absent, is zero or is a string, in the representation named
BadOperand(rq) ==
  \/ rq.payload = <<>>
  \/ rq.payload = clientEncode(rq.ContentFormat, 0)
  \/ rq.ContentFormat = JSON /\ rq.payload = <<34, 97, 34>>
  \/ rq.ContentFormat = CBOR /\ rq.payload = <<97, 97>>

\* C4: an add or subtract request to the thing with registered tokens whose
\* operand is absent, not a number or zero is answered BadRequest, and result
\* and lastChange are as they were.
C4_BadOperandIsBadRequest ==
  [][(/\ RequestStep
      /\ last'.req.root = thingName
      /\ last'.req.method = "POST"
      /\ IsMutationRequest(last'.req)
      /\ last'.req.ContentFormat \in Registered
      /\ last'.req.Accept \in Registered
      /\ BadOperand(last'.req)) =>
       /\ Answered(last'.res, 400)
       /\ result' = result
       /\ lastChange' = lastChange]_vars

\* subscription s watches result, its stream is open and result is not the
\* value it keeps
Pending(s) ==
  /\ s \in DOMAIN subs
  /\ subs[s].kind \in {"result", "update"}
  /\ subs[s].chan = "open"
  /\ subs[s].oldResult # result

\* C5: at a tick of an open subscription on result or update whose baseline
\* differs from result, the subscription writes the current result in its
\* representation and takes it as the new baseline; and while the timer
\* keeps firing such a tick comes.
C5_ChangeIsDelivered ==
  /\ [][\A s \in DOMAIN subs :
          (TickStep(s) /\ Pending(s)) =>
            /\ last'.wrote
            /\ clientDecode(subs[s].acceptHeaders, last'.body) = Number(result)
            /\ subs'[s].oldResult = result]_vars
  /\ \A s \in 1..MaxSubs : Pending(s) ~> ~Pending(s)

\* C5 witness: a subscription on the update event opened with Accept CBOR
\* has just written the result of an add(10), 0x0a.
C5_Witness ==
  /\ last.type = "tick"
  /\ last.wrote
  /\ subs[last.sub].kind = "update"
  /\ subs[last.sub].acceptHeaders = CBOR
  /\ subs[last.sub].chan = "open"
  /\ last.body = <<10>>
  /\ result = 10

\* the value subscription sub watches is the value it keeps
SameValue(sub) ==
  IF sub.kind = "lastChange"
    THEN sub.oldDate.date = lastChange.date /\ sub.oldDate.t = lastChange.t
    ELSE sub.oldResult = result

\* C6: a tick at which the watched value equals the value kept writes
\* nothing; a tick writes at most the live value.
C6_NoNotificationWithoutChange ==
  [][\A s \in DOMAIN subs :
       TickStep(s) =>
         /\ SameValue(subs[s]) => ~last'.wrote
         /\ last'.wrote => last'.body = notification(subs[s])]_vars

\* C7: a subscription whose stream was ended never runs its callback again,
\* the 'finish' event is the only thing that happens to it next, and after
\* 'finish' its timer is cancelled.
C7_ClosedSubscriptionIsSilent ==
  /\ [](\A s \in DOMAIN subs : subs[s].chan = "finished" => ~subs[s].changeInterval)
  /\ [][\A s \in DOMAIN subs :
          subs[s].chan # "open" =>
            /\ ~TickStep(s)
            /\ (subs[s].chan = "ended" /\ subs'[s] # subs[s]) => ~subs'[s].changeInterval]_vars

\* C7 witness: a subscription on result was closed and result was changed
\* afterwards; its timer is gone and its baseline is still the old value.
C7_Witness ==
  \E s \in DOMAIN subs :
    /\ subs[s].kind = "result"
    /\ subs[s].chan = "finished"
    /\ ~subs[s].changeInterval
    /\ subs[s].oldResult = 0
    /\ result = 10
    /\ last.type = "request"
    /\ AcceptedMutation(last.req, last.res)

\* C10: a request to the thing under properties, actions or events whose
\* third segment is not a declared affordance is answered NotFound, whatever
\* its method and tokens.
C10_UnknownAffordanceIsNotFound ==
  [][(/\ RequestStep
      /\ last'.req.root = thingName
      /\ last'.req.seg2 \in {"properties", "actions", "events"}
      /\ last'.req.seg3 \notin Declared(last'.req.seg2)) =>
       Answered(last'.res, 404)]_vars

(***************************************************************************)
(* Claims about the answers of the dispatcher (under Spec).                *)
(***************************************************************************)
\* the request is a GET of the given path of the thing
IsRead(rq, seg2, seg3) ==
  rq.root = thingName /\ rq.seg2 = seg2 /\ rq.seg3 = seg3 /\ rq.method = "GET"

\* the step appended one subscription of the given kind, its stream open
Subscribed(kind) ==
  /\ Len(subs') = Len(subs) + 1
  /\ SubSeq(subs', 1, Len(subs)) = subs
  /\ subs'[Len(subs')].kind = kind
  /\ subs'[Len(subs')].chan = "open"
  /\ subs'[Len(subs')].changeInterval

\* C11: a GET of events/update without Observe 0 is answered 4.02 and starts
\* no subscription; with Observe 0 and an unregistered Accept it is answered
\* 4.06 and starts none; with Observe 0 and a registered Accept it starts a
\* subscription on update and no res.end is called.
C11_UpdateNeedsObserve ==
  [][(RequestStep /\ IsRead(last'.req, "events", "update")) =>
       /\ last'.req.Observe # "0" =>
            Answered(last'.res, 402) /\ ~last'.res.observing /\ subs' = subs
       /\ (last'.req.Observe = "0" /\ last'.req.Accept \notin Registered) =>
            Answered(last'.res, 406) /\ ~last'.res.observing /\ subs' = subs
       /\ (last'.req.Observe = "0" /\ last'.req.Accept \in Registered) =>
            last'.res.ends = <<>> /\ last'.res.observing /\ Subscribed("update")]_vars

\* C11 witness: after an add(10), a GET of events/update with Observe 0 and
\* Accept CBOR was given a timer and no answer.
C11_Witness ==
  /\ last.type = "request"
  /\ IsRead(last.req, "events", "update")
  /\ last.req.Observe = "0"
  /\ last.req.Accept = CBOR
  /\ last.res.ends = <<>>
  /\ last.res.observing
  /\ subs[Len(subs)].kind = "update"
  /\ subs[Len(subs)].oldResult = 10
  /\ result = 10

\* the body is the value of the property seg3, written in the representation
\* contentType and read by the client
CarriesValue(seg3, contentType, body) ==
  IF seg3 = "result" THEN clientDecode(contentType, body) = Number(result)
  ELSE clientDecodeDate(contentType, body) = [ok |-> TRUE, date |-> lastChange.date, t |-> lastChange.t]

\* C12: a GET of properties/result or properties/lastChange whose Accept is
\* missing or unregistered is answered 4.06; with a registered Accept and no
\* Observe 0 it is answered once, with success, Content-Format the Accept
\* token and the current value in that representation; with a registered
\* Accept and Observe 0 it starts a subscription and is not answered.
C12_PropertyReadNegotiates ==
  [][\A p \in {"result", "lastChange"} :
       (RequestStep /\ IsRead(last'.req, "properties", p)) =>
         /\ last'.req.Accept \notin Registered =>
              Answered(last'.res, 406) /\ ~last'.res.observing /\ subs' = subs
         /\ (last'.req.Accept \in Registered /\ last'.req.Observe # "0") =>
              /\ Len(last'.res.ends) = 1
              /\ last'.res.ends[1].code = 0
              /\ last'.res.ends[1].cf = last'.req.Accept
              /\ CarriesValue(p, last'.req.Accept, last'.res.ends[1].body)
              /\ ~last'.res.observing
              /\ subs' = subs
         /\ (last'.req.Accept \in Registered /\ last'.req.Observe = "0") =>
              last'.res.ends = <<>> /\ last'.res.observing /\ Subscribed(p)]_vars

\* C12 witness: after an add(10) at clock reading 1, lastChange was read with
\* Accept CBOR and answered tag 1 with the time 1; and result is 10.
C12_Witness ==
  /\ last.type = "request"
  /\ IsRead(last.req, "properties", "lastChange")
  /\ last.req.Accept = CBOR
  /\ last.req.Observe = undefined
  /\ last.res.ends = <<[code |-> 0, cf |-> CBOR, body |-> <<193, 1>>, td |-> FALSE]>>
  /\ result = 10

\* some res.end of the handler carried the code
Ended(rs, code) == \E i \in DOMAIN rs.ends : rs.ends[i].code = code

\* C13: an add or subtract request with both tokens unregistered is never
\* answered 4.06, and is answered 4.15 when it is a POST to the thing; 4.06
\* is given only when Content-Format is registered and Accept is not.
C13_ContentFormatBeforeAccept ==
  [][(RequestStep /\ IsMutationRequest(last'.req)) =>
       /\ (last'.req.ContentFormat \notin Registered /\ last'.req.Accept \notin Registered) =>
            /\ ~Ended(last'.res, 406)
            /\ (last'.req.root = thingName /\ last'.req.method = "POST") =>
                 Answered(last'.res, 415)
       /\ Ended(last'.res, 406) =>
            last'.req.ContentFormat \in Registered /\ last'.req.Accept \notin Registered]_vars

\* C13 witness: a POST to subtract of the thing with Content-Format and Accept
\* text/plain was answered 4.15.
C13_Witness ==
  /\ last.type = "request"
  /\ last.req.root = thingName
  /\ last.req.seg2 = "actions"
  /\ last.req.seg3 = "subtract"
  /\ last.req.method = "POST"
  /\ last.req.ContentFormat = "text/plain"
  /\ last.req.Accept = "text/plain"
  /\ last.res.ends = <<[code |-> 415, cf |-> undefined, body |-> <<>>, td |-> FALSE]>>

\* C14: every request that is not given a subscription timer is answered by
\* a res.end before its handler returns (stated for the requests whose
\* handler is not left by an exception of a decoder).
C14_EveryRequestIsAnswered ==
  [][(RequestStep /\ ~last'.res.observing /\ ~last'.res.threw) =>
       last'.res.ends # <<>>]_vars

\* C15: a request to the root of the thing is answered once: with the
\* description if it is a GET, with 4.05 otherwise; result, lastChange and
\* the subscriptions are as they were.
C15_RootServesDescription ==
  [][(RequestStep /\ last'.req.root = thingName /\ last'.req.seg2 = "") =>
       /\ Len(last'.res.ends) = 1
       /\ last'.req.method = "GET" => last'.res.ends[1].td /\ last'.res.ends[1].code = 0
       /\ last'.req.method # "GET" => ~last'.res.ends[1].td /\ last'.res.ends[1].code = 405
       /\ result' = result
       /\ lastChange' = lastChange
       /\ subs' = subs]_vars

\* C15 witness: after an add(10), a POST to the root was answered 4.05 and
\* result is still 10.
C15_Witness ==
  /\ last.type = "request"
  /\ last.req.root = thingName
  /\ last.req.seg2 = ""
  /\ last.req.method = "POST"
  /\ Answered(last.res, 405)
  /\ result = 10
  /\ lastChange.date

\* C16: an accepted add or subtract stores a Date, and when lastChange held a
\* Date before, the new time value is greater than the old one.
C16_TimestampStrictlyLater ==
  [][(RequestStep /\ AcceptedMutation(last'.req, last'.res)) =>
       /\ lastChange'.date
       /\ lastChange.date => lastChange'.t > lastChange.t]_vars

\* the value subscription sub watches, as the client reads the body written
\* in the representation the subscription asked for
CarriesWatched(sub, body) ==
  CarriesValue(IF sub.kind = "lastChange" THEN "lastChange" ELSE "result", sub.acceptHeaders, body)

\* C17: every step changes result and lastChange together or not at all; only
\* a request handler changes them, an accepted add or subtract by exactly
\* its operand and to a Date object of its own; a tick that writes and a
\* read that is answered carry the values of the state they run in.
C17_MutationIsAtomic ==
  [][/\ (result' # result) <=> (lastChange' # lastChange)
     /\ ~RequestStep => (result' = result /\ lastChange' = lastChange)
     /\ (RequestStep /\ AcceptedMutation(last'.req, last'.res)) =>
          /\ result' = result + ledgerEntry(last'.req)
          /\ lastChange' = NewDate(nreq', lastChange'.t)
     /\ \A s \in DOMAIN subs :
          (TickStep(s) /\ last'.wrote) => CarriesWatched(subs[s], last'.body)
     /\ \A p \in {"result", "lastChange"} :
          (RequestStep /\ IsRead(last'.req, "properties", p) /\ Answered(last'.res, 0)) =>
            CarriesValue(p, last'.req.Accept, last'.res.ends[1].body)]_vars

\* C17 witness: a subscription on result opened before two adds of 5 has
\* written 10 at its tick, the value both mutations leave, and lastChange is
\* the Date of the second.
C17_Witness ==
  /\ last.type = "tick"
  /\ last.wrote
  /\ subs[last.sub].kind = "result"
  /\ last.body = serialize(subs[last.sub].acceptHeaders, 10)
  /\ result = 10
  /\ lastChange.date
  /\ lastChange.obj = 3
  /\ nreq = 3

\* C19: every notification is written in the representation named by the
\* Accept of the request that opened the subscription: the client reads the
\* watched value from it in that representation; the subscription keeps that
\* token at every step, whatever requests follow.
C19_RepresentationIsFixed ==
  [][/\ \A s \in DOMAIN subs : subs'[s].acceptHeaders = subs[s].acceptHeaders
     /\ (RequestStep /\ last'.res.observing) =>
          /\ subs'[Len(subs')].acceptHeaders = last'.req.Accept
          /\ subs'[Len(subs')].acceptHeaders \in Registered
     /\ \A s \in DOMAIN subs :
          (TickStep(s) /\ last'.wrote) =>
            /\ last'.body = IF subs[s].kind = "lastChange"
                              THEN serializeDate(subs[s].acceptHeaders, lastChange)
                              ELSE serialize(subs[s].acceptHeaders, result)
            /\ CarriesWatched(subs[s], last'.body)
            /\ subs'[s].cf = subs[s].acceptHeaders]_vars

\* C19 witness: a subscription on result opened with Accept CBOR, followed by
\* an add asked for in JSON, has written the CBOR integer 5.
C19_Witness ==
  /\ last.type = "tick"
  /\ last.wrote
  /\ subs[last.sub].kind = "result"
  /\ subs[last.sub].acceptHeaders = CBOR
  /\ subs[last.sub].cf = CBOR
  /\ last.body = <<5>>
  /\ result = 5
  /\ nreq = 2

(***************************************************************************)
(* Claims about several subscriptions at a time (under WatchSpec).         *)
(***************************************************************************)
\* the step is the timer callback, the closing or the 'finish' of subscription s
OwnStep(s) == last'.type \in {"tick", "close", "finish"} /\ last'.sub = s

\* C18: a tick, a closing or a 'finish' of one subscription leaves every
\* other subscription (baseline, timer, stream) and result and lastChange as
\* they were; a tick of an open subscription whose watched value changed
\* writes it; and every open subscription on result whose baseline differs
\* from result gets its tick, stops differing or is closed.
C18_SubscriptionsAreIndependent ==
  /\ [][\A s \in DOMAIN subs :
          /\ OwnStep(s) =>
               /\ \A u \in DOMAIN subs \ {s} : subs'[u] = subs[u]
               /\ result' = result
               /\ lastChange' = lastChange
          /\ (TickStep(s) /\ subs[s].chan = "open" /\ changed(subs[s])) =>
               last'.wrote /\ CarriesWatched(subs[s], last'.body)]_vars
  /\ \A s \in 1..MaxWatchers : Pending(s) ~> ~Pending(s)

\* C18 witness: two subscriptions on result are open; after an add(5) the
\* first has written 5 and taken it as baseline, the second still keeps 0
\* and its timer.
C18_Witness ==
  /\ Len(subs) = 2
  /\ subs[1].kind = "result" /\ subs[2].kind = "result"
  /\ subs[1].chan = "open" /\ subs[2].chan = "open"
  /\ subs[1].changeInterval /\ subs[2].changeInterval
  /\ last.type = "tick" /\ last.sub = 1 /\ last.wrote
  /\ subs[1].oldResult = 5
  /\ subs[2].oldResult = 0
  /\ result = 5

(***************************************************************************)
(* Claims about the read and subscribe forms (under FormSpec).             *)
(***************************************************************************)
\* the forms of an affordance with the given op whose representation is R
FormsFor(key, op, R) ==
  {i \in DOMAIN thingDescription[key] :
     thingDescription[key][i].op = op /\ thingDescription[key][i].contentType = R}

\* the form uses one registered representation in every format field
Uniform(form) ==
  \E i \in DOMAIN formatIdentifiers :
    /\ form.contentType = formatIdentifiers[i].id
    /\ form.respContentType = formatIdentifiers[i].id
    /\ form.contentFormat = formatIdentifiers[i].code
    /\ form.accept = formatIdentifiers[i].code
    /\ form.respContentFormat = formatIdentifiers[i].code

\* the ops an affordance of the kind is given forms for
OpsOf(a) ==
  IF a.kind = "properties"
    THEN (IF observable(a) THEN {"readproperty", "observeproperty"} ELSE {"readproperty"})
  ELSE IF a.kind = "events" THEN {"subscribeevent"}
  ELSE {"invokeaction"}

\* C20: every property whose forms were generated has, for every registered
\* representation, exactly one read form and (being observable) exactly one
\* observe form, every event exactly one subscribe form; these forms use
\* that representation in every format field and are all the forms there
\* are; the forms of the default representation come first; and the
\* subprotocol cov:observe is on the observe and subscribe forms and on no
\* read or action form.
C20_ReadAndSubscribeForms ==
  \A a \in Expanded :
    LET forms == thingDescription[a.key]
    IN  /\ a.kind # "actions" =>
             /\ \A R \in Ids, op \in OpsOf(a) : Cardinality(FormsFor(a.key, op, R)) = 1
             /\ \A i \in DOMAIN forms : forms[i].op \in OpsOf(a) /\ Uniform(forms[i])
             /\ \A i \in 1..Cardinality(OpsOf(a)) :
                  forms[i].contentType = defaultForm.contentType
        /\ \A i \in DOMAIN forms :
             (forms[i].subprotocol = "cov:observe")
               <=> (forms[i].op \in {"observeproperty", "subscribeevent"})

\* C20 witness: with XML registered before JSON and CBOR, the third and
\* fourth forms of lastChange are the XML read and observe forms, after the
\* two JSON forms, and the event has its three subscribe forms.
C20_Witness ==
  /\ stage = Serving
  /\ Len(formatIdentifiers) = 3
  /\ formatIdentifiers[1].id = "application/xml"
  /\ thingDescription["lastChange"][1].contentType = JSON
  /\ thingDescription["lastChange"][3].contentType = "application/xml"
  /\ thingDescription["lastChange"][3].op = "readproperty"
  /\ thingDescription["lastChange"][4].respContentType = "application/xml"
  /\ thingDescription["lastChange"][4].subprotocol = "cov:observe"
  /\ Len(thingDescription["update"]) = 3

(***************************************************************************)
(* Frame of the operations and shape of a handler run (under Spec); the    *)
(* single-representation registry and the codes of the forms (FormSpec).   *)
(***************************************************************************)
\* C21: a step that is not an accepted add or subtract of the thing (a read,
\* a subscription start, a tick, a closing, a rejected request) leaves
\* result and lastChange as they were, and no step changes the description.
C21_OnlyMutationsTouchState ==
  [][/\ ~(/\ RequestStep
          /\ last'.req.root = thingName
          /\ AcceptedMutation(last'.req, last'.res)) =>
          (result' = result /\ lastChange' = lastChange)
     /\ thingDescription' = thingDescription
     /\ formatIdentifiers' = formatIdentifiers]_vars

\* the base form of an affordance: defaultForm with its href, method and op
BaseForm(a) ==
  [defaultForm EXCEPT
     !.href = a.kind \o "/" \o a.key,
     !.method = IF a.kind = "actions" THEN "POST" ELSE "GET",
     !.op = IF a.kind = "properties" THEN "readproperty"
            ELSE IF a.kind = "actions" THEN "invokeaction" ELSE "subscribeevent",
     !.subprotocol = IF a.kind = "events" THEN "cov:observe" ELSE ""]

\* C22: with one representation registered, an observable property has its
\* read form and its observe form, an action its one form and an event its
\* one form, all of them the base forms.
C22_SingleRepresentationBaseFormsOnly ==
  Len(formatIdentifiers) = 1 =>
    \A a \in Expanded :
      thingDescription[a.key] =
        IF a.kind = "properties" THEN <<BaseForm(a), asObserve(BaseForm(a))>>
        ELSE <<BaseForm(a)>>

\* C22 witness: the expansion is over for the registry that holds JSON only:
\* add has one form, result has two, update one.
C22_Witness ==
  /\ stage = Serving
  /\ Len(formatIdentifiers) = 1
  /\ formatIdentifiers[1].id = JSON
  /\ Len(thingDescription["add"]) = 1
  /\ Len(thingDescription["result"]) = 2
  /\ Len(thingDescription["update"]) = 1

\* C23: a handler run calls res.end at most once, and sets no timer on a
\* response it has ended.
C23_OneBranchActs ==
  [][RequestStep =>
       /\ Len(last'.res.ends) <= 1
       /\ last'.res.observing => last'.res.ends = <<>>]_vars

\* the code the registry gives a representation (0 - 1 when it has none)
CodeOf(id) ==
  IF id \in Ids
    THEN (CHOOSE e \in {formatIdentifiers[i] : i \in DOMAIN formatIdentifiers} : e.id = id).code
    ELSE 0 - 1

\* C24: in every generated form the two representations are registered,
\* cov:contentFormat is the code of contentType, cov:accept and the response
\* cov:contentFormat are the code of the response contentType; the first form
\* is the base form, and the forms of an affordance are not changed by the
\* passes that follow.
C24_FormCodesAgree ==
  /\ [](\A a \in Expanded :
          /\ thingDescription[a.key][1] = BaseForm(a)
          /\ \A i \in DOMAIN thingDescription[a.key] :
               LET form == thingDescription[a.key][i]
               IN  /\ form.contentType \in Ids
                   /\ form.respContentType \in Ids
                   /\ form.contentFormat = CodeOf(form.contentType)
                   /\ form.accept = CodeOf(form.respContentType)
                   /\ form.respContentFormat = CodeOf(form.respContentType))
  /\ [][\A a \in Expanded : thingDescription'[a.key] = thingDescription[a.key]]_vars

\* C24 witness: with XML, JSON and CBOR registered, subtract has a form that
\* takes CBOR (60) and answers XML (41).
C24_Witness ==
  /\ stage = Serving
  /\ Len(formatIdentifiers) = 3
  /\ \E i \in DOMAIN thingDescription["subtract"] :
       LET form == thingDescription["subtract"][i]
       IN  /\ form.contentType = CBOR /\ form.contentFormat = 60
           /\ form.respContentType = "application/xml"
           /\ form.accept = 41 /\ form.respContentFormat = 41

====
